---- MODULE Spec2Model ----
(***************************************************************************)
(* Verification model of three fragments of the repository:                *)
(*   - createAzureFunction (SQL bindings command flow),                    *)
(*   - the Flat config editor (FlatConfigEditor, initializeFlatYml),       *)
(*   - the text-model reference counting exercised by the                  *)
(*     TextModelResolverService test suite.                                *)
(* Each fragment has its own specification; the variables of the other     *)
(* fragments stay at their idle values.                                    *)
(***************************************************************************)
EXTENDS Integers, Sequences, FiniteSets, TLC

VARIABLES
    \* ---- createAzureFunction ----
    afPc,               \* position inside createAzureFunction
    afResult,           \* "running" | "resolved" | "rejected": state of the returned promise
    azureFunctionApi,   \* "unknown" | "undefined" | "api"
    projectOnDisk,      \* what getAzureFunctionProject() finds: "undefined" | "proj"
    projectFile,        \* local variable projectFile
    newHostProjectFile, \* local variable: "undefined" | "assigned"
    hostWatcher,        \* newHostProjectFile.watcherDisposable: "none" | "active" | "disposed"
    hostFileCreated,    \* newHostProjectFile.filePromise has resolved
    hostFile,           \* local variable hostFile ("" when unset)
    funcWatcher,        \* newFunctionFileObject.watcherDisposable
    funcFileCreated,    \* newFunctionFileObject.filePromise has resolved
    functionFile,       \* local variable functionFile ("" when unset)
    functionName,       \* local variable functionName ("" when unset)
    selectedBinding,    \* "unset" | "undefined" | "input" | "output"
    sqlBindingDone,     \* the addSqlBinding request has completed
    createFlowError,    \* the error caught by the create-project flow ("none" when none)
    calls,              \* log of the host/API calls made, in order
    \* ---- Flat config editor ----
    workspaceFolders,   \* vscode.workspace.workspaceFolders: "undefined" | "root"
    workflowsDir,       \* .github/workflows exists on disk
    flatYmlExists,      \* .github/workflows/flat.yml exists on disk
    flatYmlText,        \* its content on disk (<<>> when absent)
    initRuns,           \* number of runs of the flat.initializeFlatYml command
    initResult,         \* outcome of the last run: "none" | "returned" | "threw"
    openWith,           \* log of the vscode.openWith commands issued
    docOpen,            \* the flat.yml text document is open
    docText,            \* text of the flat.yml text document
    docVersion,         \* its version id
    resolvePc,          \* position inside resolveCustomTextEditor
    panelDisposed,      \* the webview panel has been disposed
    saveListener,       \* changeDocumentSubscription is registered
    messageListener,    \* the onDidReceiveMessage handler is registered
    webviewWrites,      \* log of writes to the panel's webview
    saves,              \* the saves of the document and their updateWebview handlers
    updates,            \* the 'updateText' messages and their updateTextDocument handlers
    \* ---- text-model references ----
    providerRegistered, \* a content provider is registered for the scheme 'test'
    refCount,           \* reference counter of the URI's entry (0: no entry)
    entryModel,         \* id of the entry's model object (0: no entry)
    models,             \* the model objects ever created for the URI
    refs,               \* the createModelReference calls and their references
    input               \* the ResourceEditorInput and the model it resolved to

afVars == <<afPc, afResult, azureFunctionApi, projectOnDisk, projectFile,
            newHostProjectFile, hostWatcher, hostFileCreated, hostFile,
            funcWatcher, funcFileCreated, functionFile, functionName,
            selectedBinding, sqlBindingDone, createFlowError, calls>>

flatVars == <<workspaceFolders, workflowsDir, flatYmlExists, flatYmlText, initRuns,
              initResult, openWith, docOpen, docText, docVersion, resolvePc,
              panelDisposed, saveListener, messageListener, webviewWrites, saves, updates>>

refVars == <<providerRegistered, refCount, entryModel, models, refs, input>>

vars == <<afVars, flatVars, refVars>>

----------------------------------------------------------------------------
(* createAzureFunction                                                      *)

\* answers the user can give in the function-name input box: the proposed
\* unique name (derived from the table) or a name of their own
FunctionNames == {"Table1", "MyFunction"}

Call(name) == calls' = Append(calls, name)

Resolve == afPc' = "done" /\ afResult' = "resolved"
Reject == afPc' = "done" /\ afResult' = "rejected"

AFInit ==
    /\ afPc = "getApi" /\ afResult = "running"
    /\ azureFunctionApi = "unknown"
    /\ projectOnDisk \in {"undefined", "proj"}
    /\ projectFile = "undefined"
    /\ newHostProjectFile = "undefined"
    /\ hostWatcher = "none" /\ hostFileCreated = FALSE /\ hostFile = ""
    /\ funcWatcher = "none" /\ funcFileCreated = FALSE
    /\ functionFile = "" /\ functionName = "undefined"
    /\ selectedBinding = "unset" /\ sqlBindingDone = FALSE
    /\ createFlowError = "none"
    /\ calls = <<>>

\* const azureFunctionApi = await getAzureFunctionsExtensionApi(); if (!azureFunctionApi) return;
GetAzureFunctionsExtensionApi ==
    /\ afPc = "getApi"
    /\ \E api \in {"undefined", "api"} :
          /\ azureFunctionApi' = api
          /\ IF api = "undefined" THEN Resolve
             ELSE afPc' = "getProject" /\ afResult' = afResult
    /\ UNCHANGED <<projectOnDisk, projectFile, newHostProjectFile, hostWatcher,
                   hostFileCreated, hostFile, funcWatcher, funcFileCreated,
                   functionFile, functionName, selectedBinding, sqlBindingDone, calls>>
    /\ UNCHANGED createFlowError
    /\ UNCHANGED <<flatVars, refVars>>

\* let projectFile = await getAzureFunctionProject();
GetAzureFunctionProject ==
    /\ afPc = "getProject"
    /\ projectFile' = projectOnDisk
    /\ afPc' = IF projectOnDisk = "undefined" THEN "promptProject" ELSE "checkProject"
    /\ UNCHANGED <<afResult, azureFunctionApi, projectOnDisk, newHostProjectFile,
                   hostWatcher, hostFileCreated, hostFile, funcWatcher, funcFileCreated,
                   functionFile, functionName, selectedBinding, sqlBindingDone, calls>>
    /\ UNCHANGED createFlowError
    /\ UNCHANGED <<flatVars, refVars>>

\* Faulty variant: the create-project flow calls createFunction({}) without first
\* registering the host-file watcher.
ShowProjectPrompt_NoWatcherFirst ==
    /\ afPc = "promptProject"
    /\ \E projectCreate \in {"learnMore", "createProject", "undefined"} :
          /\ calls' = Append(calls, "showErrorMessage(azureFunctionsProjectMustBeOpened)")
                      \o (IF projectCreate = "learnMore" THEN <<"vscode.open(sqlBindingsDoc)">> ELSE <<>>)
          /\ CASE projectCreate = "learnMore" -> Resolve
               [] projectCreate = "createProject" ->
                     afPc' = "createProject" /\ afResult' = afResult
               [] OTHER -> afPc' = "checkProject" /\ afResult' = afResult
    /\ UNCHANGED <<azureFunctionApi, projectOnDisk, projectFile, newHostProjectFile,
                   hostWatcher, hostFileCreated, hostFile, funcWatcher, funcFileCreated,
                   functionFile, functionName, selectedBinding, sqlBindingDone>>
    /\ UNCHANGED createFlowError
    /\ UNCHANGED <<flatVars, refVars>>

\* let projectCreate = await showErrorMessage(..., createProject, learnMore); if/else-if on it
ShowProjectPrompt ==
    /\ afPc = "promptProject"
    /\ \E projectCreate \in {"learnMore", "createProject", "undefined"} :
          /\ calls' = Append(calls, "showErrorMessage(azureFunctionsProjectMustBeOpened)")
                      \o (IF projectCreate = "learnMore" THEN <<"vscode.open(sqlBindingsDoc)">> ELSE <<>>)
          /\ CASE projectCreate = "learnMore" -> Resolve
               [] projectCreate = "createProject" ->
                     afPc' = "waitForNewHostFile" /\ afResult' = afResult
               [] OTHER -> afPc' = "checkProject" /\ afResult' = afResult
    /\ UNCHANGED <<azureFunctionApi, projectOnDisk, projectFile, newHostProjectFile,
                   hostWatcher, hostFileCreated, hostFile, funcWatcher, funcFileCreated,
                   functionFile, functionName, selectedBinding, sqlBindingDone>>
    /\ UNCHANGED createFlowError
    /\ UNCHANGED <<flatVars, refVars>>

\* finally { newHostProjectFile.watcherDisposable.dispose(); }
\* newHostProjectFile is still undefined when waitForNewHostFile rejected:
\* the property access throws a TypeError that replaces the catch block's return.
HostFinally(completion) ==
    IF newHostProjectFile = "undefined"
    THEN /\ Reject /\ hostWatcher' = hostWatcher
    ELSE /\ hostWatcher' = "disposed"
         /\ IF completion = "return" THEN Resolve
            ELSE afPc' = "checkProject" /\ afResult' = afResult

\* catch (error) { void showErrorMessage(errorNewAzureFunction...); return; } finally {...}
CatchCreateProject(error) ==
    /\ createFlowError' = error
    /\ calls' = Append(calls, "showErrorMessage(errorNewAzureFunction)")
    /\ HostFinally("return")

\* newHostProjectFile = await azureFunctionUtils.waitForNewHostFile();
WaitForNewHostFile ==
    /\ afPc = "waitForNewHostFile"
    /\ \E ok \in BOOLEAN :
          IF ok
          THEN /\ newHostProjectFile' = "assigned" /\ hostWatcher' = "active"
               /\ calls' = Append(calls, "waitForNewHostFile")
               /\ afPc' = "createProject" /\ afResult' = afResult
               /\ UNCHANGED createFlowError
          ELSE /\ newHostProjectFile' = newHostProjectFile
               /\ CatchCreateProject("waitForNewHostFile")
    /\ UNCHANGED <<azureFunctionApi, projectOnDisk, projectFile, hostFileCreated, hostFile,
                   funcWatcher, funcFileCreated, functionFile, functionName,
                   selectedBinding, sqlBindingDone>>
    /\ UNCHANGED <<flatVars, refVars>>

\* await azureFunctionApi.createFunction({});  -- the call is started
CreateProject ==
    /\ afPc = "createProject"
    /\ Call("createFunction({})")
    /\ afPc' = "awaitCreateProject"
    /\ UNCHANGED <<afResult, azureFunctionApi, projectOnDisk, projectFile, newHostProjectFile,
                   hostWatcher, hostFileCreated, hostFile, funcWatcher, funcFileCreated,
                   functionFile, functionName, selectedBinding, sqlBindingDone>>
    /\ UNCHANGED createFlowError
    /\ UNCHANGED <<flatVars, refVars>>

\* ... and the awaited call completes or rejects
CreateProjectCompletes ==
    /\ afPc = "awaitCreateProject"
    /\ \E ok \in BOOLEAN :
          IF ok
          THEN /\ afPc' = "raceHostFile"
               /\ UNCHANGED <<afResult, hostWatcher, calls, createFlowError>>
          ELSE CatchCreateProject("createFunction")
    /\ UNCHANGED <<azureFunctionApi, projectOnDisk, projectFile, newHostProjectFile,
                   hostFileCreated, hostFile, funcWatcher, funcFileCreated,
                   functionFile, functionName, selectedBinding, sqlBindingDone>>
    /\ UNCHANGED <<flatVars, refVars>>

\* the watcher registered by waitForNewHostFile sees host.json and resolves filePromise
HostFileAppears ==
    /\ hostWatcher = "active" /\ ~hostFileCreated
    /\ hostFileCreated' = TRUE
    /\ projectOnDisk' \in {"undefined", "proj"}
    /\ UNCHANGED <<afPc, afResult, azureFunctionApi, projectFile, newHostProjectFile,
                   hostWatcher, hostFile, funcWatcher, funcFileCreated, functionFile,
                   functionName, selectedBinding, sqlBindingDone, calls>>
    /\ UNCHANGED createFlowError
    /\ UNCHANGED <<flatVars, refVars>>

\* utils.timeoutPromise(message): rejects once the timeout elapses
TimeoutPromiseRejects(filePromiseResolved) == ~filePromiseResolved

\* hostFile = await Promise.race([newHostProjectFile.filePromise, timeoutForHostFile]);
\* if (hostFile) { projectFile = await getAzureFunctionProject(); }
RaceHostFile ==
    /\ afPc = "raceHostFile"
    /\ IF TimeoutPromiseRejects(hostFileCreated)
       THEN /\ CatchCreateProject("timeout")
            /\ UNCHANGED <<hostFile, projectFile>>
       ELSE /\ hostFile' = "host.json"
            /\ projectFile' = projectOnDisk
            /\ UNCHANGED <<calls, createFlowError>>
            /\ HostFinally("normal")
    /\ UNCHANGED <<azureFunctionApi, projectOnDisk, newHostProjectFile, hostFileCreated,
                   funcWatcher, funcFileCreated, functionFile, functionName,
                   selectedBinding, sqlBindingDone>>
    /\ UNCHANGED <<flatVars, refVars>>

\* Faulty variant: the function-file watcher is disposed only when the try block completes normally.
FuncFinally_OnlyOnSuccess(completion) ==
    /\ funcWatcher' = IF completion = "normal" THEN "disposed" ELSE funcWatcher
    /\ CASE completion = "return" -> Resolve
         [] completion = "throw" -> Reject
         [] OTHER -> afPc' = "quickPick" /\ afResult' = afResult

\* finally { newFunctionFileObject.watcherDisposable.dispose(); }
FuncFinally(completion) ==
    /\ funcWatcher' = "disposed"
    /\ CASE completion = "return" -> Resolve
         [] completion = "throw" -> Reject
         [] OTHER -> afPc' = "quickPick" /\ afResult' = afResult

\* if (projectFile) { const newFunctionFileObject = waitForNewFunctionFile(projectFile); ...
WaitForNewFunctionFile ==
    /\ afPc = "checkProject"
    /\ IF projectFile = "undefined"
       THEN /\ Resolve /\ UNCHANGED <<funcWatcher, calls>>
       ELSE /\ funcWatcher' = "active"
            /\ Call("waitForNewFunctionFile")
            /\ afPc' = "getUniqueFileName" /\ afResult' = afResult
    /\ UNCHANGED <<azureFunctionApi, projectOnDisk, projectFile, newHostProjectFile,
                   hostWatcher, hostFileCreated, hostFile, funcFileCreated,
                   functionFile, functionName, selectedBinding, sqlBindingDone>>
    /\ UNCHANGED createFlowError
    /\ UNCHANGED <<flatVars, refVars>>

\* let uniqueFunctionName = await utils.getUniqueFileName(path.dirname(projectFile), table);
GetUniqueFileName ==
    /\ afPc = "getUniqueFileName"
    /\ \E ok \in BOOLEAN :
          IF ok THEN /\ afPc' = "showInputBox" /\ UNCHANGED <<afResult, funcWatcher>>
          ELSE FuncFinally("throw")
    /\ UNCHANGED <<azureFunctionApi, projectOnDisk, projectFile, newHostProjectFile,
                   hostWatcher, hostFileCreated, hostFile, funcFileCreated,
                   functionFile, functionName, selectedBinding, sqlBindingDone, calls>>
    /\ UNCHANGED createFlowError
    /\ UNCHANGED <<flatVars, refVars>>

\* functionName = await showInputBox(...); if (!functionName) return;
ShowInputBox ==
    /\ afPc = "showInputBox"
    /\ \E answer \in {"undefined"} \cup FunctionNames :
          /\ functionName' = answer
          /\ IF answer = "undefined" THEN FuncFinally("return")
             ELSE afPc' = "createFunction" /\ UNCHANGED <<afResult, funcWatcher>>
    /\ UNCHANGED <<azureFunctionApi, projectOnDisk, projectFile, newHostProjectFile,
                   hostWatcher, hostFileCreated, hostFile, funcFileCreated,
                   functionFile, selectedBinding, sqlBindingDone, calls>>
    /\ UNCHANGED createFlowError
    /\ UNCHANGED <<flatVars, refVars>>

\* await azureFunctionApi.createFunction({ language: 'C#', templateId: 'HttpTrigger', ... });
\* the call is started
CreateFunction ==
    /\ afPc = "createFunction"
    /\ Call("createFunction(HttpTrigger)")
    /\ afPc' = "awaitCreateFunction"
    /\ UNCHANGED <<afResult, azureFunctionApi, projectOnDisk, projectFile, newHostProjectFile,
                   hostWatcher, hostFileCreated, hostFile, funcWatcher, funcFileCreated,
                   functionFile, functionName, selectedBinding, sqlBindingDone>>
    /\ UNCHANGED createFlowError
    /\ UNCHANGED <<flatVars, refVars>>

\* ... and the awaited call completes or rejects
CreateFunctionCompletes ==
    /\ afPc = "awaitCreateFunction"
    /\ \E ok \in BOOLEAN :
          IF ok THEN /\ afPc' = "raceFunctionFile" /\ UNCHANGED <<afResult, funcWatcher>>
          ELSE FuncFinally("throw")
    /\ UNCHANGED <<azureFunctionApi, projectOnDisk, projectFile, newHostProjectFile,
                   hostWatcher, hostFileCreated, hostFile, funcFileCreated,
                   functionFile, functionName, selectedBinding, sqlBindingDone, calls>>
    /\ UNCHANGED createFlowError
    /\ UNCHANGED <<flatVars, refVars>>

\* the watcher registered by waitForNewFunctionFile sees the new file and resolves filePromise
FunctionFileAppears ==
    /\ funcWatcher = "active" /\ ~funcFileCreated
    /\ funcFileCreated' = TRUE
    /\ UNCHANGED <<afPc, afResult, azureFunctionApi, projectOnDisk, projectFile,
                   newHostProjectFile, hostWatcher, hostFileCreated, hostFile, funcWatcher,
                   functionFile, functionName, selectedBinding, sqlBindingDone, calls>>
    /\ UNCHANGED createFlowError
    /\ UNCHANGED <<flatVars, refVars>>

\* functionFile = await Promise.race([newFunctionFileObject.filePromise, timeoutForFunctionFile]);
RaceFunctionFile ==
    /\ afPc = "raceFunctionFile"
    /\ IF TimeoutPromiseRejects(funcFileCreated)
       THEN /\ FuncFinally("throw") /\ UNCHANGED functionFile
       ELSE /\ functionFile' = functionName /\ FuncFinally("normal")
    /\ UNCHANGED <<azureFunctionApi, projectOnDisk, projectFile, newHostProjectFile,
                   hostWatcher, hostFileCreated, hostFile, funcFileCreated,
                   functionName, selectedBinding, sqlBindingDone, calls>>
    /\ UNCHANGED createFlowError
    /\ UNCHANGED <<flatVars, refVars>>

\* const selectedBinding = await showQuickPick(inputOutputItems, ...); if (!selectedBinding) return;
ShowQuickPick ==
    /\ afPc = "quickPick"
    /\ \E pick \in {"undefined", "input", "output"} :
          /\ selectedBinding' = pick
          /\ IF pick = "undefined" THEN Resolve
             ELSE afPc' = "addNuget" /\ afResult' = afResult
    /\ UNCHANGED <<azureFunctionApi, projectOnDisk, projectFile, newHostProjectFile,
                   hostWatcher, hostFileCreated, hostFile, funcWatcher, funcFileCreated,
                   functionFile, functionName, sqlBindingDone, calls>>
    /\ UNCHANGED createFlowError
    /\ UNCHANGED <<flatVars, refVars>>

\* an awaited binding step: the call is made, then it completes or rejects
BindingStep(at, name, next) ==
    /\ afPc = at
    /\ Call(name)
    /\ \E ok \in BOOLEAN :
          IF ok THEN afPc' = next /\ afResult' = afResult ELSE Reject
    /\ UNCHANGED <<azureFunctionApi, projectOnDisk, projectFile, newHostProjectFile,
                   hostWatcher, hostFileCreated, hostFile, funcWatcher, funcFileCreated,
                   functionFile, functionName, selectedBinding, sqlBindingDone>>
    /\ UNCHANGED createFlowError

\* await azureFunctionUtils.addNugetReferenceToProjectFile(projectFile);
AddNugetReferenceToProjectFile ==
    BindingStep("addNuget", "addNugetReferenceToProjectFile", "addConnectionString")
    /\ UNCHANGED <<flatVars, refVars>>

\* await azureFunctionUtils.addConnectionStringToConfig(connectionString, projectFile);
AddConnectionStringToConfig ==
    BindingStep("addConnectionString", "addConnectionStringToConfig", "addSqlBinding")
    /\ UNCHANGED <<flatVars, refVars>>

\* Faulty variant: the addSqlBinding request is sent but not awaited.
AddSqlBinding_NotAwaited ==
    /\ afPc = "addSqlBinding"
    /\ \E ok \in BOOLEAN :
          IF ok THEN /\ Call("addSqlBinding")
                     /\ afPc' = "overwrite" /\ afResult' = afResult
          ELSE /\ Reject /\ calls' = calls
    /\ UNCHANGED <<azureFunctionApi, projectOnDisk, projectFile, newHostProjectFile,
                   hostWatcher, hostFileCreated, hostFile, funcWatcher, funcFileCreated,
                   functionFile, functionName, selectedBinding, sqlBindingDone>>
    /\ UNCHANGED createFlowError
    /\ UNCHANGED <<flatVars, refVars>>

\* const azureFunctionsService = await utils.getAzureFunctionService();
\* await azureFunctionsService.addSqlBinding(...): the request is sent
AddSqlBinding ==
    /\ afPc = "addSqlBinding"
    /\ \E ok \in BOOLEAN :
          IF ok THEN /\ Call("addSqlBinding")
                     /\ afPc' = "awaitSqlBinding" /\ afResult' = afResult
          ELSE /\ Reject /\ calls' = calls
    /\ UNCHANGED <<azureFunctionApi, projectOnDisk, projectFile, newHostProjectFile,
                   hostWatcher, hostFileCreated, hostFile, funcWatcher, funcFileCreated,
                   functionFile, functionName, selectedBinding, sqlBindingDone>>
    /\ UNCHANGED createFlowError
    /\ UNCHANGED <<flatVars, refVars>>

\* ... the awaited addSqlBinding request completes (or rejects)
AddSqlBindingCompletes ==
    /\ afPc = "awaitSqlBinding"
    /\ \E ok \in BOOLEAN :
          IF ok THEN /\ sqlBindingDone' = TRUE
                     /\ afPc' = "overwrite" /\ afResult' = afResult
          ELSE /\ Reject /\ sqlBindingDone' = sqlBindingDone
    /\ UNCHANGED <<azureFunctionApi, projectOnDisk, projectFile, newHostProjectFile,
                   hostWatcher, hostFileCreated, hostFile, funcWatcher, funcFileCreated,
                   functionFile, functionName, selectedBinding, calls>>
    /\ UNCHANGED createFlowError
    /\ UNCHANGED <<flatVars, refVars>>

\* azureFunctionUtils.overwriteAzureFunctionMethodBody(functionFile);  (last statement)
OverwriteAzureFunctionMethodBody ==
    /\ afPc = "overwrite"
    /\ Call("overwriteAzureFunctionMethodBody")
    /\ Resolve
    /\ UNCHANGED <<azureFunctionApi, projectOnDisk, projectFile, newHostProjectFile,
                   hostWatcher, hostFileCreated, hostFile, funcWatcher, funcFileCreated,
                   functionFile, functionName, selectedBinding, sqlBindingDone>>
    /\ UNCHANGED createFlowError
    /\ UNCHANGED <<flatVars, refVars>>

AFNext ==
    \/ GetAzureFunctionsExtensionApi
    \/ GetAzureFunctionProject
    \/ ShowProjectPrompt
    \/ WaitForNewHostFile
    \/ CreateProject
    \/ CreateProjectCompletes
    \/ HostFileAppears
    \/ RaceHostFile
    \/ WaitForNewFunctionFile
    \/ GetUniqueFileName
    \/ ShowInputBox
    \/ CreateFunction
    \/ CreateFunctionCompletes
    \/ FunctionFileAppears
    \/ RaceFunctionFile
    \/ ShowQuickPick
    \/ AddNugetReferenceToProjectFile
    \/ AddConnectionStringToConfig
    \/ AddSqlBinding
    \/ AddSqlBindingCompletes
    \/ OverwriteAzureFunctionMethodBody

AFIdle ==
    /\ afPc = "idle" /\ afResult = "running"
    /\ azureFunctionApi = "unknown"
    /\ projectOnDisk = "undefined" /\ projectFile = "undefined"
    /\ newHostProjectFile = "undefined"
    /\ hostWatcher = "none" /\ hostFileCreated = FALSE /\ hostFile = ""
    /\ funcWatcher = "none" /\ funcFileCreated = FALSE
    /\ functionFile = "" /\ functionName = "undefined"
    /\ selectedBinding = "unset" /\ sqlBindingDone = FALSE
    /\ createFlowError = "none"
    /\ calls = <<>>

----------------------------------------------------------------------------
(* Flat config editor: texts, ranges and YAML serialization                 *)

MaxCommands == 2    \* runs of flat.initializeFlatYml
MaxSaves == 2    \* saves of the document
MaxMessages == 2    \* 'updateText' messages

\* Texts are sequences of characters; "\n" separates lines.
\* contents flat.yml can have before the editor touches it
InitialTexts == { <<>>, <<"a", ":", "\n">>, <<"a", ":", "\n", "b", ":">> }

\* the data of an 'updateText' message: the ordered keys of the workflow object
DataValues == { <<>>, <<"a">>, <<"a", "b">> }

RECURSIVE StringifyKeys(_)
StringifyKeys(keys) ==
    IF keys = <<>> THEN <<>>
    ELSE <<Head(keys), ":", "\n">> \o StringifyKeys(Tail(keys))

\* yaml stringify: one "key:" line per key, each terminated by a newline;
\* the empty mapping is the flow mapping "{}"
stringify(data) ==
    IF data = <<>> THEN <<"{", "}", "\n">> ELSE StringifyKeys(data)

\* const serialized = stringify(data); return serialized;
serializeWorkflow(data) == stringify(data)

\* document.lineCount
LineCount(text) == 1 + Cardinality({i \in DOMAIN text : text[i] = "\n"})

\* offset of the first character of a line (0-based line, 0-based offset)
LineStart(text, line) ==
    IF line = 0 THEN 0
    ELSE CHOOSE i \in DOMAIN text :
            /\ text[i] = "\n"
            /\ Cardinality({j \in 1..i : text[j] = "\n"}) = line

\* offset of a position after validation: a line past the end clamps to the end
\* of the document, a character past the end of its line to the end of the line
OffsetAt(text, line, character) ==
    IF line >= LineCount(text) THEN Len(text)
    ELSE LET start == LineStart(text, line)
             end   == IF line + 1 = LineCount(text) THEN Len(text)
                      ELSE LineStart(text, line + 1) - 1
         IN IF start + character > end THEN end ELSE start + character

\* new vscode.Range(0, 0, document.lineCount, 0)
ReplaceRange(lineCount) ==
    [startLine |-> 0, startCharacter |-> 0, endLine |-> lineCount, endCharacter |-> 0]

\* the text after a replace edit of range by newText
ApplyReplace(text, range, newText) ==
    LET from == OffsetAt(text, range.startLine, range.startCharacter)
        to   == OffsetAt(text, range.endLine, range.endCharacter)
    IN SubSeq(text, 1, from) \o newText \o SubSeq(text, to + 1, Len(text))

\* the keys of the flatStub object literal
flatStub == <<"name", "on", "jobs">>

\* showEditor({ isPreview, onSide }): the vscode.openWith command it issues, if any
showEditor(isPreview, onSide) ==
    IF workspaceFolders = "undefined" THEN <<>>
    ELSE << [viewType |-> IF isPreview THEN "flat.config" ELSE "default",
             beside   |-> onSide] >>

FlatInit ==
    /\ workspaceFolders \in {"undefined", "root"}
    /\ flatYmlExists \in BOOLEAN
    /\ flatYmlText \in (IF flatYmlExists THEN InitialTexts ELSE {<<>>})
    /\ workflowsDir = flatYmlExists
    /\ initRuns = 0 /\ initResult = "none"
    /\ openWith = <<>>
    /\ docOpen = FALSE /\ docText = <<>> /\ docVersion = 0
    /\ resolvePc = "notStarted" /\ panelDisposed = FALSE
    /\ saveListener = FALSE /\ messageListener = FALSE
    /\ webviewWrites = <<>> /\ saves = <<>> /\ updates = <<>>

editorVars == <<docOpen, docText, docVersion, resolvePc, panelDisposed, saveListener,
                messageListener, webviewWrites, saves, updates>>

\* Faulty variant: the stub is written without looking whether flat.yml exists.
initializeFlatYml_NoExistsCheck ==
    /\ initRuns < MaxCommands
    /\ initRuns' = initRuns + 1
    /\ IF workspaceFolders = "undefined"
       THEN /\ initResult' = "returned"
            /\ UNCHANGED <<workflowsDir, flatYmlExists, flatYmlText, openWith>>
       ELSE \E mkdirOk, writeOk \in BOOLEAN :
               /\ workflowsDir' = (workflowsDir \/ mkdirOk)
               /\ IF mkdirOk /\ writeOk
                  THEN /\ flatYmlExists' = TRUE
                       /\ flatYmlText' = stringify(flatStub)
                       /\ openWith' = openWith \o showEditor(TRUE, FALSE)
                       /\ initResult' = "returned"
                  ELSE /\ initResult' = "threw"
                       /\ UNCHANGED <<flatYmlExists, flatYmlText, openWith>>
    /\ UNCHANGED <<workspaceFolders, editorVars>>
    /\ UNCHANGED <<afVars, refVars>>

\* initializeFlatYml(): the function has no await, the command runs in one step
initializeFlatYml ==
    /\ initRuns < MaxCommands
    /\ initRuns' = initRuns + 1
    /\ IF workspaceFolders = "undefined"
       THEN \* if (!folders) return;
            /\ initResult' = "returned"
            /\ UNCHANGED <<workflowsDir, flatYmlExists, flatYmlText, openWith>>
       ELSE IF flatYmlExists
       THEN \* if (fs.existsSync(flatYmlPath)) { showEditor({ isPreview: true }); return; }
            /\ openWith' = openWith \o showEditor(TRUE, FALSE)
            /\ initResult' = "returned"
            /\ UNCHANGED <<workflowsDir, flatYmlExists, flatYmlText>>
       ELSE \* mkdirSync, writeFileSync (either may throw), showEditor
            \E mkdirOk, writeOk \in BOOLEAN :
               /\ workflowsDir' = (workflowsDir \/ mkdirOk)
               /\ IF mkdirOk /\ writeOk
                  THEN /\ flatYmlExists' = TRUE
                       /\ flatYmlText' = stringify(flatStub)
                       /\ openWith' = openWith \o showEditor(TRUE, FALSE)
                       /\ initResult' = "returned"
                  ELSE /\ initResult' = "threw"
                       /\ UNCHANGED <<flatYmlExists, flatYmlText, openWith>>
    /\ UNCHANGED <<workspaceFolders, editorVars>>
    /\ UNCHANGED <<afVars, refVars>>

fsVars == <<workspaceFolders, workflowsDir, flatYmlExists, initRuns, initResult, openWith>>

\* getHtmlForWebview: if (!workspaceRootUri) throw new Error('No workspace open');
\* otherwise it suspends on openTextDocument
getHtmlForWebviewThrows == workspaceFolders = "undefined"

\* a write to the panel's webview: webview.html = ... or webview.postMessage(...)
WebviewWrite(kind, cause, saveAfterDispose) ==
    [kind |-> kind, cause |-> cause, afterDispose |-> panelDisposed,
     saveAfterDispose |-> saveAfterDispose]

\* Faulty variant: disposing the panel leaves the save listener registered.
onDidDispose_KeepListener ==
    /\ panelDisposed' = TRUE
    /\ saveListener' = saveListener

\* the panel is disposed; webviewPanel.onDidDispose(() => changeDocumentSubscription.dispose())
onDidDispose ==
    /\ panelDisposed' = TRUE
    /\ saveListener' = FALSE

\* resolveCustomTextEditor up to its first await: the host has opened the document
\* of flat.yml; the save listener and the dispose handler are registered
resolveCustomTextEditor ==
    /\ resolvePc = "notStarted" /\ flatYmlExists
    /\ docOpen' = TRUE /\ docText' = flatYmlText /\ docVersion' = 1
    /\ saveListener' = TRUE
    /\ resolvePc' = IF getHtmlForWebviewThrows THEN "showErrorMessage" ELSE "awaitHtml"
    /\ UNCHANGED <<fsVars, flatYmlText, panelDisposed, messageListener, webviewWrites,
                   saves, updates>>
    /\ UNCHANGED <<afVars, refVars>>

\* webviewPanel.webview.html = await this.getHtmlForWebview(...); then the message
\* listener is registered.  Assigning html on an already disposed webview may be
\* refused by the host with an exception, which the catch block handles.
resolveHtmlReady ==
    /\ resolvePc = "awaitHtml"
    /\ webviewWrites' = Append(webviewWrites, WebviewWrite("html", "resolve", FALSE))
    /\ \E refused \in (IF panelDisposed THEN BOOLEAN ELSE {FALSE}) :
          IF refused
          THEN resolvePc' = "showErrorMessage" /\ UNCHANGED messageListener
          ELSE resolvePc' = "done" /\ messageListener' = TRUE
    /\ UNCHANGED <<fsVars, flatYmlText, docOpen, docText, docVersion, panelDisposed,
                   saveListener, saves, updates>>
    /\ UNCHANGED <<afVars, refVars>>

\* catch (e) { await showErrorMessage(...);
resolveErrorShown ==
    /\ resolvePc = "showErrorMessage"
    /\ resolvePc' = "revertAndClose"
    /\ UNCHANGED <<fsVars, flatYmlText, docOpen, docText, docVersion, panelDisposed,
                   saveListener, messageListener, webviewWrites, saves, updates>>
    /\ UNCHANGED <<afVars, refVars>>

\* await executeCommand('workbench.action.revertAndCloseActiveEditor');
resolveRevertAndClose ==
    /\ resolvePc = "revertAndClose"
    /\ resolvePc' = "disposePanel"
    /\ UNCHANGED <<fsVars, flatYmlText, docOpen, docText, docVersion, panelDisposed,
                   saveListener, messageListener, webviewWrites, saves, updates>>
    /\ UNCHANGED <<afVars, refVars>>

\* await webviewPanel.dispose(); }  then the message listener is registered
resolveDisposePanel ==
    /\ resolvePc = "disposePanel"
    /\ onDidDispose
    /\ messageListener' = TRUE
    /\ resolvePc' = "done"
    /\ UNCHANGED <<fsVars, flatYmlText, docOpen, docText, docVersion,
                   webviewWrites, saves, updates>>
    /\ UNCHANGED <<afVars, refVars>>

\* the user closes the editor
closeEditor ==
    /\ resolvePc # "notStarted" /\ ~panelDisposed
    /\ onDidDispose
    /\ UNCHANGED <<fsVars, flatYmlText, docOpen, docText, docVersion, resolvePc,
                   messageListener, webviewWrites, saves, updates>>
    /\ UNCHANGED <<afVars, refVars>>

\* The document is saved (by the user: debouncedSave only builds a debounced
\* function and never calls it).  The host writes the file and fires
\* onDidSaveTextDocument; the listener, if registered, starts updateWebview.
onDidSaveTextDocument ==
    /\ docOpen /\ Len(saves) < MaxSaves
    /\ flatYmlText' = docText
    /\ \E activeTextEditor \in BOOLEAN :
          IF ~saveListener
          THEN /\ saves' = Append(saves, [pc |-> "noListener", afterDispose |-> panelDisposed])
               /\ UNCHANGED webviewWrites
          ELSE IF activeTextEditor
          THEN \* webview.html = await this.getHtmlForWebview(webview);
               /\ saves' = Append(saves,
                     [pc |-> IF getHtmlForWebviewThrows THEN "threw" ELSE "awaitHtml",
                      afterDispose |-> panelDisposed])
               /\ UNCHANGED webviewWrites
          ELSE \* webview.postMessage({ command: 'updateState', ... });
               /\ saves' = Append(saves, [pc |-> "done", afterDispose |-> panelDisposed])
               /\ webviewWrites' = Append(webviewWrites,
                                          WebviewWrite("updateState", "save", panelDisposed))
    /\ UNCHANGED <<fsVars, docOpen, docText, docVersion, resolvePc, panelDisposed,
                   saveListener, messageListener, updates>>
    /\ UNCHANGED <<afVars, refVars>>

\* updateWebview resumes after getHtmlForWebview and assigns webview.html
updateWebviewHtmlReady(i) ==
    /\ saves[i].pc = "awaitHtml"
    /\ saves' = [saves EXCEPT ![i].pc = "done"]
    /\ webviewWrites' = Append(webviewWrites, WebviewWrite("html", "save", saves[i].afterDispose))
    /\ UNCHANGED <<fsVars, flatYmlText, docOpen, docText, docVersion, resolvePc,
                   panelDisposed, saveListener, messageListener, updates>>
    /\ UNCHANGED <<afVars, refVars>>

\* The webview posts { type: 'updateText', data }; the handler calls
\* updateTextDocument(document, data) without awaiting it.  updateTextDocument
\* throws without a workspace folder, otherwise suspends on openTextDocument.
onDidReceiveMessage(data) ==
    /\ messageListener /\ ~panelDisposed /\ Len(updates) < MaxMessages
    /\ updates' = Append(updates,
          [data |-> data,
           pc |-> IF workspaceFolders = "undefined" THEN "threw" ELSE "openTextDocument",
           edit |-> FALSE, version |-> 0, lineCount |-> 0, applied |-> FALSE,
           textAfter |-> <<>>])
    /\ UNCHANGED <<fsVars, flatYmlText, docOpen, docText, docVersion, resolvePc,
                   panelDisposed, saveListener, messageListener, webviewWrites, saves>>
    /\ UNCHANGED <<afVars, refVars>>

\* updateTextDocument resumes after openTextDocument (handlers resume in the order
\* they suspended): currentText = document.getText(); newText = serializeWorkflow(data);
\* if (currentText === newText) return; otherwise the replace edit is built and
\* applyEdit is called with the version of the document the handler sees
updateTextDocumentRead(h) ==
    /\ updates[h].pc = "openTextDocument"
    /\ \A g \in 1..(h-1) : updates[g].pc # "openTextDocument"
    /\ LET currentText == docText
           newText == serializeWorkflow(updates[h].data)
       IN IF currentText = newText
          THEN updates' = [updates EXCEPT ![h].pc = "done"]
          ELSE updates' = [updates EXCEPT ![h].pc = "applyEdit", ![h].edit = TRUE,
                                          ![h].version = docVersion,
                                          ![h].lineCount = LineCount(docText)]
    /\ UNCHANGED <<fsVars, flatYmlText, docOpen, docText, docVersion, resolvePc,
                   panelDisposed, saveListener, messageListener, webviewWrites, saves>>
    /\ UNCHANGED <<afVars, refVars>>

\* await vscode.workspace.applyEdit(edit): the host applies the edits in the order
\* they were requested, and refuses an edit made against an older version of the
\* document (applyEdit then resolves to false, which the code ignores);
\* this.debouncedSave(document) has no effect
updateTextDocumentApplyEdit(h) ==
    /\ updates[h].pc = "applyEdit"
    /\ \A g \in 1..(h-1) : updates[g].pc # "applyEdit"
    /\ LET ok == updates[h].version = docVersion
           text == IF ok THEN ApplyReplace(docText, ReplaceRange(updates[h].lineCount),
                                           serializeWorkflow(updates[h].data))
                   ELSE docText
       IN /\ docText' = text
          /\ docVersion' = IF ok THEN docVersion + 1 ELSE docVersion
          /\ updates' = [updates EXCEPT ![h].pc = "done", ![h].applied = ok,
                                        ![h].textAfter = text]
    /\ UNCHANGED <<fsVars, flatYmlText, docOpen, resolvePc, panelDisposed, saveListener,
                   messageListener, webviewWrites, saves>>
    /\ UNCHANGED <<afVars, refVars>>

FlatNext ==
    \/ initializeFlatYml
    \/ resolveCustomTextEditor
    \/ resolveHtmlReady
    \/ resolveErrorShown
    \/ resolveRevertAndClose
    \/ resolveDisposePanel
    \/ closeEditor
    \/ onDidSaveTextDocument
    \/ \E i \in DOMAIN saves : updateWebviewHtmlReady(i)
    \/ \E data \in DataValues : onDidReceiveMessage(data)
    \/ \E h \in DOMAIN updates : updateTextDocumentRead(h)
    \/ \E h \in DOMAIN updates : updateTextDocumentApplyEdit(h)

----------------------------------------------------------------------------
(* Properties of createAzureFunction                                        *)

Range(f) == {f[i] : i \in DOMAIN f}

BindingSteps == <<"addNugetReferenceToProjectFile", "addConnectionStringToConfig",
                  "addSqlBinding", "overwriteAzureFunctionMethodBody">>

IsBindingStep(c) == c \in Range(BindingSteps)

\* C5: whenever a step of the create-project flow fails (waitForNewHostFile,
\* createFunction({}) or the host-file wait timing out), an error message is
\* shown, createAzureFunction resolves (does not reject), no function is
\* created and no SQL binding step is performed.
C5_CreateFlowErrorShowsMessageAndResolves ==
    (createFlowError # "none" /\ afPc = "done") =>
        /\ "showErrorMessage(errorNewAzureFunction)" \in Range(calls)
        /\ afResult = "resolved"
        /\ "createFunction(HttpTrigger)" \notin Range(calls)
        /\ \A c \in Range(calls) : ~IsBindingStep(c)

\* C8: every file-system watcher createAzureFunction created is disposed by the
\* time createAzureFunction completes (resolved or rejected), on every exit path.
C8_WatchersDisposedOnCompletion ==
    afPc = "done" => (hostWatcher # "active" /\ funcWatcher # "active")

C8_Witness ==
    /\ afPc = "done" /\ afResult = "rejected"
    /\ hostWatcher = "disposed" /\ funcWatcher = "disposed"

\* C9: the watcher for a new file is registered before the createFunction call
\* that creates the file is started: waitForNewHostFile has completed before
\* createFunction({}) is called, and waitForNewFunctionFile has been called
\* before createFunction for the HttpTrigger is called.
C9_WatcherRegisteredBeforeCreate ==
    \A i \in DOMAIN calls :
        /\ calls[i] = "createFunction({})" =>
              \E j \in 1..(i-1) : calls[j] = "waitForNewHostFile"
        /\ calls[i] = "createFunction(HttpTrigger)" =>
              \E j \in 1..(i-1) : calls[j] = "waitForNewFunctionFile"

C9_Witness ==
    /\ "createFunction({})" \in Range(calls)
    /\ "createFunction(HttpTrigger)" \in Range(calls)

\* C10: the binding steps run only after the function name and the binding type
\* were given and the new function file was observed, always in the order
\* addNugetReferenceToProjectFile, addConnectionStringToConfig, addSqlBinding,
\* overwriteAzureFunctionMethodBody; a cancelled function-name input creates no
\* function; overwriteAzureFunctionMethodBody never runs unless the
\* addSqlBinding request has completed.
C10_BindingStepsGuardedAndOrdered ==
    LET steps == SelectSeq(calls, IsBindingStep) IN
    /\ Len(steps) <= Len(BindingSteps)
    /\ steps = SubSeq(BindingSteps, 1, Len(steps))
    /\ steps # <<>> =>
          /\ functionName \in FunctionNames
          /\ selectedBinding \in {"input", "output"}
          /\ funcFileCreated /\ functionFile # ""
          /\ "createFunction(HttpTrigger)" \in Range(calls)
    /\ "createFunction(HttpTrigger)" \in Range(calls) => functionName \in FunctionNames
    /\ "overwriteAzureFunctionMethodBody" \in Range(calls) => sqlBindingDone

C10_Witness ==
    /\ afPc = "done"
    /\ SelectSeq(calls, IsBindingStep) = BindingSteps
----------------------------------------------------------------------------
(* Properties of the Flat config editor                                     *)

AllUpdatesHandled == \A h \in DOMAIN updates : updates[h].pc = "done"

\* C3: for every 'updateText' message whose serialized data differs from the
\* document text its handler reads, once updateTextDocument has finished the
\* text of flat.yml equals stringify(data) exactly.
C3_TextEqualsSerializedDataAfterUpdate ==
    \A h \in DOMAIN updates :
        (updates[h].pc = "done" /\ updates[h].edit) =>
            updates[h].textAfter = stringify(updates[h].data)

\* C4: a run of initializeFlatYml never changes an existing flat.yml; a file it
\* creates holds the serialized stub; with no workspace folder it changes nothing
\* on disk and opens no editor; in every other case in which it returns, flat.yml
\* exists and exactly one 'flat.config' editor has been opened on it.
C4_InitializeStep ==
    initRuns' = initRuns + 1 =>
        /\ flatYmlExists => (flatYmlExists' /\ flatYmlText' = flatYmlText)
        /\ (~flatYmlExists /\ flatYmlExists') => flatYmlText' = stringify(flatStub)
        /\ workspaceFolders = "undefined" =>
              /\ UNCHANGED <<workflowsDir, flatYmlExists, flatYmlText, openWith>>
              /\ initResult' = "returned"
        /\ (workspaceFolders # "undefined" /\ initResult' = "returned") =>
              /\ flatYmlExists'
              /\ openWith' = Append(openWith, [viewType |-> "flat.config", beside |-> FALSE])
        /\ initResult' = "threw" => UNCHANGED <<flatYmlExists, flatYmlText, openWith>>

C6_NoSaveWriteAfterDispose ==
    \A i \in DOMAIN webviewWrites :
        webviewWrites[i].cause = "save" => ~webviewWrites[i].afterDispose

\* C6 (amended): no save that happens after the panel has been disposed causes
\* a write to the panel's webview.
C6_NoWriteForSaveAfterDispose ==
    \A i \in DOMAIN webviewWrites :
        webviewWrites[i].cause = "save" => ~webviewWrites[i].saveAfterDispose

C6_Witness ==
    /\ panelDisposed
    /\ \E i \in DOMAIN saves : saves[i].afterDispose /\ saves[i].pc = "noListener"

\* C7: when two 'updateText' messages m1, m2 arrive in this order and both
\* handlers have finished, the document text is the serialization of m2's data.
C7_LastUpdateTextWins ==
    (Len(updates) = 2 /\ AllUpdatesHandled) =>
        docText = stringify(updates[2].data)

----------------------------------------------------------------------------
(* Text-model references (TextModelResolverService as its test suite uses it) *)

MaxRefs == 2        \* createModelReference calls besides the editor input

Callers == 1..MaxRefs

\* provideTextContent of the provider the tests register: modelContent = 'Hello Test'
provideTextContent == "Hello Test"

RefInit ==
    /\ providerRegistered = FALSE
    /\ refCount = 0 /\ entryModel = 0 /\ models = <<>>
    /\ refs = [c \in Callers |-> [state |-> "none", model |-> 0]]
    /\ input = [state |-> "created", model |-> 0]

\* registerTextModelContentProvider('test', ...)
registerTextModelContentProvider ==
    /\ ~providerRegistered
    /\ providerRegistered' = TRUE
    /\ UNCHANGED <<refCount, entryModel, models, refs, input>>
    /\ UNCHANGED <<afVars, flatVars>>

\* dispose of the registration
disposeProviderRegistration ==
    /\ providerRegistered
    /\ providerRegistered' = FALSE
    /\ UNCHANGED <<refCount, entryModel, models, refs, input>>
    /\ UNCHANGED <<afVars, flatVars>>

\* acquiring the URI's entry: the first acquisition creates the model object and
\* starts loading it, every acquisition increments the counter
acquire ==
    /\ refCount' = refCount + 1
    /\ IF refCount = 0
       THEN /\ models' = Append(models, [state |-> "loading", content |-> "", destroy |-> FALSE])
            /\ entryModel' = Len(models) + 1
       ELSE UNCHANGED <<models, entryModel>>

\* Faulty variant: disposing any reference destroys the model object.
release_IgnoreCount ==
    /\ refCount' = refCount - 1
    /\ models' = [models EXCEPT ![entryModel].destroy = TRUE]
    /\ UNCHANGED entryModel

\* disposing a reference decrements the counter; the last one removes the entry
\* and asks for the model object to be destroyed
release ==
    /\ refCount' = refCount - 1
    /\ IF refCount = 1
       THEN /\ models' = [models EXCEPT ![entryModel].destroy = TRUE]
            /\ entryModel' = 0
       ELSE UNCHANGED <<models, entryModel>>

\* textModelResolverService.createModelReference(uri)
createModelReference(c) ==
    /\ refs[c].state = "none"
    /\ acquire
    /\ refs' = [refs EXCEPT ![c] = [state |-> "pending", model |-> entryModel']]
    /\ UNCHANGED <<providerRegistered, input>>
    /\ UNCHANGED <<afVars, flatVars>>

\* input.resolve(): the input acquires its model reference
inputResolve ==
    /\ input.state = "created"
    /\ acquire
    /\ input' = [state |-> "resolving", model |-> entryModel']
    /\ UNCHANGED <<providerRegistered, refs>>
    /\ UNCHANGED <<afVars, flatVars>>

\* Faulty variant: the model is created with no content.
resolveTextModelContent_Empty(m) ==
    /\ m \in DOMAIN models /\ models[m].state = "loading"
    /\ models' = [models EXCEPT ![m] =
          IF providerRegistered
          THEN [state |-> "loaded", content |-> "", destroy |-> @.destroy]
          ELSE [state |-> "failed", content |-> "", destroy |-> @.destroy]]
    /\ UNCHANGED <<providerRegistered, refCount, entryModel, refs, input>>
    /\ UNCHANGED <<afVars, flatVars>>

\* the content provider resolves and the model object gets its text; without a
\* provider for the scheme the load fails
resolveTextModelContent(m) ==
    /\ m \in DOMAIN models /\ models[m].state = "loading"
    /\ models' = [models EXCEPT ![m] =
          IF providerRegistered
          THEN [state |-> "loaded", content |-> provideTextContent, destroy |-> @.destroy]
          ELSE [state |-> "failed", content |-> "", destroy |-> @.destroy]]
    /\ UNCHANGED <<providerRegistered, refCount, entryModel, refs, input>>
    /\ UNCHANGED <<afVars, flatVars>>

\* the promise of createModelReference settles: with the reference once the model
\* is loaded, with an error (after releasing the acquisition) when loading failed
referenceSettles(c) ==
    /\ refs[c].state = "pending"
    /\ \/ /\ models[refs[c].model].state = "loaded"
          /\ refs' = [refs EXCEPT ![c].state = "held"]
          /\ UNCHANGED <<refCount, entryModel, models>>
       \/ /\ models[refs[c].model].state = "failed"
          /\ release
          /\ refs' = [refs EXCEPT ![c].state = "rejected"]
    /\ UNCHANGED <<providerRegistered, input>>
    /\ UNCHANGED <<afVars, flatVars>>

\* modelRef.dispose()
referenceDispose(c) ==
    /\ refs[c].state = "held"
    /\ release
    /\ refs' = [refs EXCEPT ![c].state = "disposed"]
    /\ UNCHANGED <<providerRegistered, input>>
    /\ UNCHANGED <<afVars, flatVars>>

\* input.resolve() settles
inputSettles ==
    /\ input.state = "resolving"
    /\ \/ /\ models[input.model].state = "loaded"
          /\ input' = [input EXCEPT !.state = "resolved"]
          /\ UNCHANGED <<refCount, entryModel, models>>
       \/ /\ models[input.model].state = "failed"
          /\ release
          /\ input' = [input EXCEPT !.state = "rejected"]
    /\ UNCHANGED <<providerRegistered, refs>>
    /\ UNCHANGED <<afVars, flatVars>>

\* input.dispose(): the input disposes the reference it holds
inputDispose ==
    /\ input.state = "resolved"
    /\ release
    /\ input' = [input EXCEPT !.state = "disposed"]
    /\ UNCHANGED <<providerRegistered, refs>>
    /\ UNCHANGED <<afVars, flatVars>>

\* the destruction asked for by the last release: the model object is disposed
\* and fires onDispose / onWillDispose
destroyReferencedObject(m) ==
    /\ m \in DOMAIN models
    /\ models[m].destroy /\ models[m].state = "loaded"
    /\ models' = [models EXCEPT ![m].state = "disposed"]
    /\ UNCHANGED <<providerRegistered, refCount, entryModel, refs, input>>
    /\ UNCHANGED <<afVars, flatVars>>

ModelIds == 1..(MaxRefs + 1)

RefNext ==
    \/ registerTextModelContentProvider
    \/ disposeProviderRegistration
    \/ \E c \in Callers : createModelReference(c)
    \/ inputResolve
    \/ \E m \in ModelIds : resolveTextModelContent(m)
    \/ \E c \in Callers : referenceSettles(c)
    \/ \E c \in Callers : referenceDispose(c)
    \/ inputSettles
    \/ inputDispose
    \/ \E m \in ModelIds : destroyReferencedObject(m)

----------------------------------------------------------------------------
(* Properties of the text-model references                                  *)

Holders(m) ==
    {c \in Callers : refs[c].model = m /\ refs[c].state \in {"pending", "held"}}

InputHolds(m) == input.model = m /\ input.state \in {"resolving", "resolved"}

IsDisposed(m) == m \in DOMAIN models /\ models[m].state = "disposed"

\* two references requested while the model is still loading are for one model object
C1_SameModelWhileLoading ==
    \A c, d \in Callers :
        (refs[c].state = "pending" /\ refs[d].state = "pending") =>
            refs[c].model = refs[d].model

\* the model is not disposed while a reference to it is undisposed
C1_NotDisposedWhileReferenced ==
    \A m \in DOMAIN models :
        (Holders(m) # {} \/ InputHolds(m)) => models[m].state # "disposed"

\* a loaded model none of whose references is undisposed any more
C1_AllReleased(m) ==
    /\ m \in DOMAIN models /\ models[m].state = "loaded"
    /\ Holders(m) = {} /\ ~InputHolds(m)

\* C1: references are counted even while the model is loading: two
\* createModelReference calls issued before the provider has resolved yield the
\* same model object, the model is not disposed while one of its references is
\* undisposed, and it is disposed once the last reference has been disposed.
C1_LoadingDocumentsAreRefcounted ==
    /\ [](C1_SameModelWhileLoading /\ C1_NotDisposedWhileReferenced)
    /\ \A m \in ModelIds : C1_AllReleased(m) ~> IsDisposed(m)

C1_Witness ==
    /\ \A c \in Callers : refs[c].state = "disposed" /\ refs[c].model = 1
    /\ IsDisposed(1)

\* C2: a resolved ResourceEditorInput has a model whose content is the text the
\* provider supplied, and disposing the input, when it is the
\* model's only holder, eventually disposes the model (onDispose fires).
C2_ResolveResource ==
    /\ [](input.state = "resolved" =>
            /\ models[input.model].state = "loaded"
            /\ models[input.model].content = provideTextContent)
    /\ (input.state = "disposed" /\ Holders(input.model) = {}) ~> IsDisposed(input.model)

C2_Witness ==
    /\ input.state = "disposed" /\ IsDisposed(input.model)
    /\ \A c \in Callers : refs[c].state = "none"

----------------------------------------------------------------------------
(* Specifications                                                           *)

FlatIdle ==
    /\ workspaceFolders = "undefined"
    /\ flatYmlExists = FALSE /\ flatYmlText = <<>> /\ workflowsDir = FALSE
    /\ initRuns = 0 /\ initResult = "none"
    /\ openWith = <<>>
    /\ docOpen = FALSE /\ docText = <<>> /\ docVersion = 0
    /\ resolvePc = "notStarted" /\ panelDisposed = FALSE
    /\ saveListener = FALSE /\ messageListener = FALSE
    /\ webviewWrites = <<>> /\ saves = <<>> /\ updates = <<>>

InitAF == AFInit /\ FlatIdle /\ RefInit

InitFlat == FlatInit /\ AFIdle /\ RefInit

InitRef == RefInit /\ AFIdle /\ FlatIdle

SpecAF == InitAF /\ [][AFNext]_vars

SpecFlat == InitFlat /\ [][FlatNext]_vars

SpecRef == InitRef /\ [][RefNext]_vars

\* the destruction after the last release is a queued continuation: it runs
\* once it is enabled
FairSpecRef ==
    InitRef /\ [][RefNext]_vars /\ WF_vars(\E m \in ModelIds : destroyReferencedObject(m))
====
